---- MODULE Spec2Model ----
(***************************************************************************)
(* Model of World (src/src/world/world.rs): the master list entity_cells,  *)
(* the two spatial indexes, the id allocator, the update / collision pass  *)
(* and the ray cast.                                                       *)
(*                                                                         *)
(* Coordinates are integers; a Location is a closed axis-aligned box       *)
(* [left,right] x [down,up]; a grid cell has side `unit`.  Body shapes are *)
(* their boxes.  SpatialHashing, Body and grid_raycast are collaborators   *)
(* whose code is not in world.rs; they are modelled from their contracts.  *)
(* wall_map and time are not read by any operation of World and are left   *)
(* out.  borrow_mut of an entity that is already mutably borrowed fails    *)
(* fast: update stops there (pc = "panicked") and nothing runs after it.   *)
(* Distances are kept as squares; a negated distance is a negated square.  *)
(***************************************************************************)
EXTENDS Integers, Sequences, FiniteSets, TLC

\* ------------------------------------------------------------------ bounds
\* number of insert calls explored
MaxEntities == 3
\* grid cells have coordinates 0..MaxCell in both directions
MaxCell == 1

\* ------------------------------------------------------- program constants
\* World::new(unit): the cell size shared by both indexes
unit == 4

\* ------------------------------------------------------------ entity pool
Loc(l, r, d, u) == [left |-> l, right |-> r, down |-> d, up |-> u]

\* The entities a collaborator constructs and hands to World::insert.
\* physic_type, group and mask are fixed at construction; `home` is the
\* location at construction, `pushed` the location resolve_collision leaves
\* the body at, and dies_on_collision says whether on_collision marks the
\* entity dead.
KindTable ==
  << [physic_type |-> "Dynamic", group |-> 1, mask |-> 1,
      home |-> Loc(0, 5, 1, 2), pushed |-> Loc(0, 5, 1, 2), dies_on_collision |-> FALSE],
     [physic_type |-> "Dynamic", group |-> 1, mask |-> 2,
      home |-> Loc(2, 6, 2, 3), pushed |-> Loc(2, 6, 2, 3), dies_on_collision |-> TRUE],
     [physic_type |-> "Static", group |-> 3, mask |-> 0,
      home |-> Loc(3, 4, 0, 7), pushed |-> Loc(3, 4, 0, 7), dies_on_collision |-> FALSE],
     [physic_type |-> "Dynamic", group |-> 2, mask |-> 2,
      home |-> Loc(1, 2, 4, 5), pushed |-> Loc(1, 2, 4, 5), dies_on_collision |-> FALSE],
     [physic_type |-> "Dynamic", group |-> 2, mask |-> 1,
      home |-> Loc(4, 6, 3, 4), pushed |-> Loc(4, 6, 4, 5), dies_on_collision |-> FALSE] >>

Handles == DOMAIN KindTable
Kind(h) == KindTable[h]
IsStatic(h) == Kind(h).physic_type = "Static"

\* masks used by the queries
Masks == {1, 2}

\* ---------------------------------------------------------------- helpers
RECURSIVE BitAnd(_, _)
\* Flags `&`
BitAnd(a, b) ==
  IF a = 0 \/ b = 0 THEN 0
  ELSE ((a % 2) * (b % 2)) + (2 * BitAnd(a \div 2, b \div 2))

Range(s) == {s[k] : k \in DOMAIN s}

RECURSIVE Flatten(_)
Flatten(ss) == IF ss = <<>> THEN <<>> ELSE Head(ss) \o Flatten(Tail(ss))

Cells == (0..MaxCell) \X (0..MaxCell)

\* ------------------------------------------------------------------ state
VARIABLES
  next_id,          \* World.next_id
  entity_cells,     \* World.entity_cells: the master list, a sequence of handles
  static_hashmap,   \* World.static_hashmap: cell -> bucket (sequence of handles)
  dynamic_hashmap,  \* World.dynamic_hashmap
  body,             \* per entity: id, location, dead
  pc,               \* position inside update: idle, hooks, reclaim, collide, visit, panicked
  i,                \* loop index of the running loop of update
  j,                \* position in the matches apply_locally delivers
  loc,              \* `location` captured at line 76
  log,              \* calls made by the collision step of the running cycle
  removed,          \* entities swap-removed by the running cycle
  scan0,            \* the master list when the reclamation scan started
  fresh,            \* entities inserted since the last update began
  ray,              \* the last ray cast: its input and the callback invocations
  applied           \* the last apply_on_group: its mask and the callback invocations

vars == <<next_id, entity_cells, static_hashmap, dynamic_hashmap, body, pc, i, j,
          loc, log, removed, scan0, fresh, ray, applied>>

\* --------------------------------------------------- Body (collaborator)
\* Location overlap, the test behind in_location and collide
Overlap(p, q) ==
  /\ p.left <= q.right /\ q.left <= p.right
  /\ p.down <= q.up /\ q.down <= p.up

location(h) == body[h].location
in_location(h, l) == Overlap(location(h), l)
collide(a, b) == Overlap(location(a), location(b))
\* resolve_collision: a static body stays, another body ends at `pushed`
resolve_collision(h) == IF IsStatic(h) THEN location(h) ELSE Kind(h).pushed

\* ----------------------------------------- SpatialHashing (collaborator)
NoLoc == Loc(0, 0, 0, 0)
EmptyMap == [c \in Cells |-> <<>>]

\* the cells a location overlaps, column by column
CellSeq(l) ==
  LET cx0 == l.left \div unit
      cx1 == l.right \div unit
      cy0 == l.down \div unit
      cy1 == l.up \div unit
      ny == cy1 - cy0 + 1
  IN [k \in 1..((cx1 - cx0 + 1) * ny) |-> <<cx0 + ((k - 1) \div ny), cy0 + ((k - 1) % ny)>>]

hm_get_on_index(map, index) == IF index \in Cells THEN map[index] ELSE <<>>

\* inserts the item into the bucket of every overlapping cell
insert_locally(map, l, item) ==
  [c \in Cells |-> IF c \in Range(CellSeq(l)) THEN Append(map[c], item) ELSE map[c]]

\* items of every overlapping cell, one entry per cell the item is held in
hm_get_locally(map, l) ==
  Flatten([k \in DOMAIN CellSeq(l) |-> hm_get_on_index(map, CellSeq(l)[k])])

\* ------------------------------------------------------- World: queries
get_on_index(mask, index) ==
  LET vec == hm_get_on_index(static_hashmap, index) \o hm_get_on_index(dynamic_hashmap, index)
      keep(h) == BitAnd(Kind(h).group, mask) # 0
  IN SelectSeq(vec, keep)

get_locally(mask, l) ==
  LET vec == hm_get_locally(static_hashmap, l) \o hm_get_locally(dynamic_hashmap, l)
      keep(h) == BitAnd(Kind(h).group, mask) # 0 /\ in_location(h, l)
  IN SelectSeq(vec, keep)

get_on_group(mask) ==
  LET keep(h) == BitAnd(Kind(h).group, mask) # 0
  IN SelectSeq(entity_cells, keep)

\* the entity cells apply_locally hands to its two closures, in order
apply_locally_cells(l) ==
  hm_get_locally(static_hashmap, l) \o hm_get_locally(dynamic_hashmap, l)

\* -------------------------------------------------------- World::new
NoRay == [cast |-> FALSE]
NoApply == [cast |-> FALSE]

Init ==
  /\ next_id = 1
  /\ entity_cells = <<>>
  /\ static_hashmap = EmptyMap
  /\ dynamic_hashmap = EmptyMap
  /\ body = [h \in Handles |-> [id |-> 0, location |-> Kind(h).home, dead |-> FALSE]]
  /\ pc = "idle"
  /\ i = 0
  /\ j = 0
  /\ loc = NoLoc
  /\ log = <<>>
  /\ removed = {}
  /\ scan0 = <<>>
  /\ fresh = {}
  /\ ray = NoRay
  /\ applied = NoApply

\* -------------------------------------------------------- World::insert
insert_next_id_stuck(n) == n

\* line 98
insert_next_id(n) == n + 1

insert_static_skip(map, h) == map

\* line 103
insert_static(map, h) ==
  IF IsStatic(h) THEN insert_locally(map, location(h), h) ELSE map

insert_dynamic_skip(map, h) == map

insert_dynamic_any(map, h) == insert_locally(map, location(h), h)

\* line 104
insert_dynamic(map, h) ==
  IF IsStatic(h) THEN map ELSE insert_locally(map, location(h), h)

\* an entity not yet given to the world
NotInserted(h) == body[h].id = 0 /\ h \notin Range(entity_cells)

insert(h) ==
  /\ pc = "idle"
  /\ NotInserted(h)
  /\ next_id <= MaxEntities
  /\ body' = [body EXCEPT ![h].id = next_id]
  /\ next_id' = insert_next_id(next_id)
  /\ static_hashmap' = insert_static(static_hashmap, h)
  /\ dynamic_hashmap' = insert_dynamic(dynamic_hashmap, h)
  /\ entity_cells' = Append(entity_cells, h)
  /\ fresh' = fresh \cup {h}
  /\ ray' = NoRay
  /\ applied' = NoApply
  /\ UNCHANGED <<pc, i, j, loc, log, removed, scan0>>

\* -------------------------------------------------------- World::update
\* entry of update
update_begin ==
  /\ pc = "idle"
  /\ pc' = "hooks"
  /\ i' = 1
  /\ log' = <<>>
  /\ removed' = {}
  /\ scan0' = <<>>
  /\ fresh' = {}
  /\ ray' = NoRay
  /\ applied' = NoApply
  /\ UNCHANGED <<next_id, entity_cells, static_hashmap, dynamic_hashmap, body, j, loc>>

\* what one update hook may do to its entity
HookOutcomes(h) ==
  {"none", "die"} \cup (IF ~IsStatic(h) /\ location(h) # Kind(h).home THEN {"move"} ELSE {})

\* lines 58-60: the update hook of entity_cells[i]
update_hook ==
  /\ pc = "hooks"
  /\ i <= Len(entity_cells)
  /\ \E o \in HookOutcomes(entity_cells[i]) :
       body' = CASE o = "none" -> body
                 [] o = "die"  -> [body EXCEPT ![entity_cells[i]].dead = TRUE]
                 [] o = "move" -> [body EXCEPT ![entity_cells[i]].location = Kind(entity_cells[i]).home]
  /\ i' = i + 1
  /\ UNCHANGED <<next_id, entity_cells, static_hashmap, dynamic_hashmap, pc, j, loc,
                 log, removed, scan0, fresh, ray, applied>>

\* line 62: let mut i = 0
update_hooks_done ==
  /\ pc = "hooks"
  /\ i > Len(entity_cells)
  /\ pc' = "reclaim"
  /\ i' = 0
  /\ scan0' = entity_cells
  /\ UNCHANGED <<next_id, entity_cells, static_hashmap, dynamic_hashmap, body, j, loc,
                 log, removed, fresh, ray, applied>>

\* Vec::swap_remove at a 0-based index
swap_remove(v, n) ==
  [k \in 1..(Len(v) - 1) |-> IF k = n + 1 THEN v[Len(v)] ELSE v[k]]

reclaim_iter_keep(v, n) == <<v, n + 1>>

reclaim_iter_skip(v, n) ==
  IF body[v[n + 1]].dead THEN <<swap_remove(v, n), n + 1>> ELSE <<v, n + 1>>

\* lines 64-69: one iteration of the scan; the list and the index after it
reclaim_iter(v, n) ==
  IF body[v[n + 1]].dead THEN <<swap_remove(v, n), n>> ELSE <<v, n + 1>>

update_reclaim ==
  /\ pc = "reclaim"
  /\ i < Len(entity_cells)
  /\ entity_cells' = reclaim_iter(entity_cells, i)[1]
  /\ i' = reclaim_iter(entity_cells, i)[2]
  /\ removed' = removed \cup (Range(entity_cells) \ Range(entity_cells'))
  /\ UNCHANGED <<next_id, static_hashmap, dynamic_hashmap, body, pc, j, loc, log,
                 scan0, fresh, ray, applied>>

\* SpatialHashing::clear
clear(map) == EmptyMap

update_clear_both(s, d) == <<clear(s), clear(d)>>

\* lines 72 and 274-276: the two indexes after self.clear_dynamic()
update_clear(s, d) == <<s, clear(d)>>

\* line 72, when the scan has ended
clear_dynamic ==
  /\ pc = "reclaim"
  /\ i >= Len(entity_cells)
  /\ static_hashmap' = update_clear(static_hashmap, dynamic_hashmap)[1]
  /\ dynamic_hashmap' = update_clear(static_hashmap, dynamic_hashmap)[2]
  /\ pc' = "collide"
  /\ i' = 1
  /\ UNCHANGED <<next_id, entity_cells, body, j, loc, log, removed,
                 scan0, fresh, ray, applied>>

\* lines 75-77: borrow the entity, capture its location
update_borrow ==
  /\ pc = "collide"
  /\ i <= Len(entity_cells)
  /\ loc' = location(entity_cells[i])
  /\ pc' = "visit"
  /\ j' = 1
  /\ UNCHANGED <<next_id, entity_cells, static_hashmap, dynamic_hashmap, body, i, log,
                 removed, scan0, fresh, ray, applied>>

Ev(op, a, b) == [op |-> op, a |-> a, b |-> b]

\* the filter of the closures of apply_locally (lines 121, 127)
apply_locally_test(other, mask, l) ==
  BitAnd(Kind(other).group, mask) # 0 /\ in_location(other, l)

callback_calls_short(entity, other) ==
  << Ev("resolve_collision", entity, other),
     Ev("resolve_collision", other, entity),
     Ev("on_collision", entity, other) >>

\* lines 80-83: the calls made for a match whose predicate is true
callback_calls(entity, other) ==
  << Ev("resolve_collision", entity, other),
     Ev("resolve_collision", other, entity),
     Ev("on_collision", entity, other),
     Ev("on_collision", other, entity) >>

\* the bodies after the four calls
callback_body(entity, other) ==
  LET b1 == [body EXCEPT ![entity].location = resolve_collision(entity)]
      b2 == [b1 EXCEPT ![other].location = resolve_collision(other)]
      b3 == [b2 EXCEPT ![entity].dead = @ \/ Kind(entity).dies_on_collision]
  IN [b3 EXCEPT ![other].dead = @ \/ Kind(other).dies_on_collision]

\* lines 119-130 with the callback of lines 78-85: one entity cell delivered
update_visit ==
  /\ pc = "visit"
  /\ j <= Len(apply_locally_cells(loc))
  /\ LET entity == entity_cells[i]
         other == apply_locally_cells(loc)[j]
     IN IF other = entity
        THEN \* borrow_mut of the entity update already borrowed
             /\ pc' = "panicked"
             /\ UNCHANGED <<body, log, j>>
        ELSE /\ pc' = pc
             /\ j' = j + 1
             /\ IF apply_locally_test(other, Kind(entity).mask, loc)
                THEN IF collide(entity, other)
                     THEN /\ log' = (log \o <<Ev("collide", entity, other)>>)
                                      \o callback_calls(entity, other)
                          /\ body' = callback_body(entity, other)
                     ELSE /\ log' = Append(log, Ev("collide", entity, other))
                          /\ UNCHANGED body
                ELSE UNCHANGED <<body, log>>
  /\ UNCHANGED <<next_id, entity_cells, static_hashmap, dynamic_hashmap, i, loc,
                 removed, scan0, fresh, ray, applied>>

\* line 88
update_insert ==
  /\ pc = "visit"
  /\ j > Len(apply_locally_cells(loc))
  /\ dynamic_hashmap' = insert_locally(dynamic_hashmap, location(entity_cells[i]), entity_cells[i])
  /\ i' = i + 1
  /\ pc' = "collide"
  /\ UNCHANGED <<next_id, entity_cells, static_hashmap, body, j, loc, log, removed,
                 scan0, fresh, ray, applied>>

\* line 90
update_return ==
  /\ pc = "collide"
  /\ i > Len(entity_cells)
  /\ pc' = "idle"
  /\ UNCHANGED <<next_id, entity_cells, static_hashmap, dynamic_hashmap, body, i, j, loc,
                 log, removed, scan0, fresh, ray, applied>>

\* ------------------------------------------------------- World::raycast
\* Ray inputs: origin (x,y), direction (dx,dy) standing for the angle
\* (0: (1,0), pi: (-1,0), pi/4: (1,1), -3pi/4: (-1,-1), pi/2: (0,1)) and
\* n steps of (dx,dy) for the length.  No ray passes through a cell corner.
\* For the angle pi/2 the f64 values length*cos(angle) and b*y (both of the
\* order of 1e-16 times length or y) are absorbed when added to an x that is
\* not near zero: x1 = x0 and the line is x = x0, which dx = 0 and b = 0 render.
Rays ==
  { [x |-> 1, y |-> 6, dx |-> 0,  dy |-> 1,  n |-> 1],
    [x |-> 4, y |-> 2, dx |-> -1, dy |-> 0,  n |-> 4],
    [x |-> 0, y |-> 3, dx |-> 1,  dy |-> 1,  n |-> 4],
    [x |-> 4, y |-> 7, dx |-> -1, dy |-> -1, n |-> 4],
    [x |-> 0, y |-> 2, dx |-> 1,  dy |-> 0,  n |-> 7],
    [x |-> 7, y |-> 2, dx |-> -1, dy |-> 0,  n |-> 7],
    [x |-> 0, y |-> 4, dx |-> 1,  dy |-> 0,  n |-> 7] }

\* the callback answers true at its StopAt-th invocation (0: never)
StopAts == 0..2

Min2(p, q) == IF p <= q THEN p ELSE q
Max2(p, q) == IF p >= q THEN p ELSE q

\* the point of the ray after t steps
RayPoint(r, t) == <<r.x + (t * r.dx), r.y + (t * r.dy)>>
CellOf(pt) == <<pt[1] \div unit, pt[2] \div unit>>

RECURSIVE grid_walk(_, _, _)
grid_walk(r, t, acc) ==
  IF t > r.n THEN acc
  ELSE grid_walk(r, t + 1,
         IF acc # <<>> /\ acc[Len(acc)] = CellOf(RayPoint(r, t)) THEN acc
         ELSE Append(acc, CellOf(RayPoint(r, t))))

\* grid_raycast: the cells crossed from the start cell to the end cell, in order
grid_raycast(r) == grid_walk(r, 0, <<>>)

\* lines 161-166: the line a x + b y + c = 0; 1/tan(angle) is dx/dy
line_equation(r) ==
  IF r.dy = 0 THEN <<0, 1, -r.y>>
  ELSE LET b == -(r.dx * r.dy) IN <<1, b, (-r.x) - (b * r.y)>>

\* Body::raycast(a,b,c): the points where the line enters and leaves the box,
\* sorted by x, or <<>> when the line misses it
body_raycast(h, abc) ==
  LET l == location(h)
      b == abc[2]
      c == abc[3]
  IN IF abc[1] = 0
     THEN IF l.down <= -c /\ -c <= l.up THEN <<l.left, -c, l.right, -c>> ELSE <<>>
     ELSE IF b = 0
     THEN IF l.left <= -c /\ -c <= l.right THEN <<-c, l.down, -c, l.up>> ELSE <<>>
     ELSE LET xa == IF b = -1 THEN l.down - c ELSE (-l.up) - c
              xb == IF b = -1 THEN l.up - c ELSE (-l.down) - c
              xlo == Max2(l.left, xa)
              xhi == Min2(l.right, xb)
          IN IF xlo <= xhi THEN <<xlo, b * ((-c) - xlo), xhi, b * ((-c) - xhi)>> ELSE <<>>

\* the square of the distance of lines 197-198 and 208-209; the sort only
\* compares keys, and squaring a distance and keeping its sign keeps the order
Dist2(r, px, py) == ((r.x - px) * (r.x - px)) + ((r.y - py) * (r.y - py))

\* lines 168-169
line_start(r) == Min2(r.x, r.x + (r.n * r.dx))
line_end(r) == Max2(r.x, r.x + (r.n * r.dx))
\* lines 177-178
segment_start(r, index) == Max2(index[1] * unit, line_start(r))
segment_end(r, index) == Min2((index[1] + 1) * unit, line_end(r))

raycast_retain_all(h, mask, visited) == BitAnd(Kind(h).group, mask) # 0

\* lines 184-186: the filter of res.retain
raycast_retain(h, mask, visited) ==
  BitAnd(Kind(h).group, mask) # 0 /\ body[h].id \notin visited

\* lines 182-186
raycast_res(index, mask, visited) ==
  LET res == hm_get_on_index(static_hashmap, index) \o hm_get_on_index(dynamic_hashmap, index)
      keep(h) == raycast_retain(h, mask, visited)
  IN SelectSeq(res, keep)

\* lines 189, 194, 205: the entity has an intersection in the segment of the cell
raycast_hit(r, index, h) ==
  LET p == body_raycast(h, line_equation(r))
  IN /\ p # <<>>
     /\ segment_start(r, index) <= p[3]
     /\ p[1] <= segment_end(r, index)

raycast_entry_swapped(r, index, h) ==
  LET p == body_raycast(h, line_equation(r))
      dmin == Dist2(r, p[1], p[2])
      dmax == Dist2(r, p[3], p[4])
  IN IF r.dx < 0
     THEN [entity |-> h, min |-> IF p[3] > segment_end(r, index) THEN -dmin ELSE dmin,
           max |-> dmax]
     ELSE [entity |-> h, min |-> IF p[1] < segment_start(r, index) THEN -dmax ELSE dmax,
           max |-> dmin]

\* lines 193-215: the (entity, min, max) pushed for a hit
raycast_entry(r, index, h) ==
  LET p == body_raycast(h, line_equation(r))
      dmin == Dist2(r, p[1], p[2])
      dmax == Dist2(r, p[3], p[4])
  IN IF r.dx < 0
     THEN [entity |-> h, min |-> IF p[3] > segment_end(r, index) THEN -dmax ELSE dmax,
           max |-> dmin]
     ELSE [entity |-> h, min |-> IF p[1] < segment_start(r, index) THEN -dmin ELSE dmin,
           max |-> dmax]

RECURSIVE raycast_bodies(_, _, _)
\* lines 187-217: res is popped from its end
raycast_bodies(r, index, res) ==
  IF res = <<>> THEN <<>>
  ELSE LET h == res[Len(res)]
           rest == raycast_bodies(r, index, SubSeq(res, 1, Len(res) - 1))
       IN IF raycast_hit(r, index, h) THEN <<raycast_entry(r, index, h)>> \o rest ELSE rest

\* position of e in a sorted sequence: after every element whose key is not greater
InsertSorted(s, e) ==
  LET k == Cardinality({m \in DOMAIN s : s[m].min <= e.min})
  IN SubSeq(s, 1, k) \o <<e>> \o SubSeq(s, k + 1, Len(s))

RECURSIVE sort_by(_)
\* lines 219-227: stable ascending sort on min
sort_by(s) ==
  IF s = <<>> THEN <<>>
  ELSE InsertSorted(sort_by(SubSeq(s, 1, Len(s) - 1)), s[Len(s)])

raycast_return_never(ret) == FALSE

\* lines 231-233: whether raycast returns after a callback that answered ret
raycast_return(ret) == ret

RECURSIVE raycast_deliver(_, _, _)
\* lines 229-234: <<calls, returned>>
raycast_deliver(bodies, calls, stopAt) ==
  IF bodies = <<>> THEN <<calls, FALSE>>
  ELSE LET ret == (Len(calls) + 1 = stopAt)
           call == [entity |-> bodies[1].entity, id |-> body[bodies[1].entity].id,
                    min |-> bodies[1].min, max |-> bodies[1].max, ret |-> ret]
       IN IF raycast_return(ret) THEN <<Append(calls, call), TRUE>>
          ELSE raycast_deliver(Tail(bodies), Append(calls, call), stopAt)

RECURSIVE raycast_cells(_, _, _, _, _, _)
\* lines 173-235: the loop over index_vec, from its k-th cell on
raycast_cells(r, mask, stopAt, k, visited, calls) ==
  IF k > Len(grid_raycast(r))
  THEN [calls |-> calls, cells |-> k - 1, returned |-> FALSE]
  ELSE LET index == grid_raycast(r)[k]
           bodies == sort_by(raycast_bodies(r, index, raycast_res(index, mask, visited)))
           d == raycast_deliver(bodies, calls, stopAt)
           seen == visited \cup {body[bodies[m].entity].id : m \in DOMAIN bodies}
       IN IF d[2] THEN [calls |-> d[1], cells |-> k, returned |-> TRUE]
          ELSE raycast_cells(r, mask, stopAt, k + 1, seen, d[1])

\* raycast leaves the world as it is, so a second cast from the same world
\* gives the record the first one would have given: one cast is recorded
raycast(mask, r, stopAt) ==
  /\ pc = "idle"
  /\ entity_cells # <<>>
  /\ ~ray.cast
  /\ ~applied.cast
  /\ ray' = [cast |-> TRUE, mask |-> mask, r |-> r, stopAt |-> stopAt,
             out |-> raycast_cells(r, mask, stopAt, 1, {}, <<>>)]
  /\ UNCHANGED <<next_id, entity_cells, static_hashmap, dynamic_hashmap, body, pc, i, j,
                 loc, log, removed, scan0, fresh, applied>>

\* ------------------------------------------------ World::apply_on_group
apply_on_group_same(h, mask) == Kind(h).group = mask

\* line 112: the test before the callback
apply_on_group_test(h, mask) == BitAnd(Kind(h).group, mask) # 0

RECURSIVE apply_on_group_calls(_, _)
\* lines 110-115: the entities handed to the callback, in the order of the calls
apply_on_group_calls(v, mask) ==
  IF v = <<>> THEN <<>>
  ELSE (IF apply_on_group_test(Head(v), mask) THEN <<Head(v)>> ELSE <<>>)
         \o apply_on_group_calls(Tail(v), mask)

\* like raycast, apply_on_group leaves the world as it is and is recorded once
apply_on_group(mask) ==
  /\ pc = "idle"
  /\ entity_cells # <<>>
  /\ ~ray.cast
  /\ ~applied.cast
  /\ applied' = [cast |-> TRUE, mask |-> mask,
                 calls |-> apply_on_group_calls(entity_cells, mask)]
  /\ UNCHANGED <<next_id, entity_cells, static_hashmap, dynamic_hashmap, body, pc, i, j,
                 loc, log, removed, scan0, fresh, ray>>

Next ==
  \/ \E h \in Handles : insert(h)
  \/ update_begin
  \/ update_hook
  \/ update_hooks_done
  \/ update_reclaim
  \/ clear_dynamic
  \/ update_borrow
  \/ update_visit
  \/ update_insert
  \/ update_return
  \/ \E mask \in Masks, r \in Rays, stopAt \in StopAts : raycast(mask, r, stopAt)
  \/ \E mask \in Masks : apply_on_group(mask)

Spec == Init /\ [][Next]_vars

\* ================================================================ claims
Count(op, a, b) == Cardinality({k \in DOMAIN log : log[k] = Ev(op, a, b)})
Occurrences(v, h) == Cardinality({k \in DOMAIN v : v[k] = h})
\* the collision step has processed every entity of the master list
CollisionStepDone == pc = "collide" /\ i > Len(entity_cells)
\* a pair the claims on collisions speak of: A before B in the master list,
\* both non-static, overlapping, B's mask meeting A's group, neither displaced
\* by resolve_collision
CollidingPair(p, q) ==
  LET A == entity_cells[p]
      B == entity_cells[q]
  IN /\ p < q
     /\ ~IsStatic(A) /\ ~IsStatic(B)
     /\ collide(A, B)
     /\ BitAnd(Kind(A).group, Kind(B).mask) # 0
     /\ resolve_collision(A) = location(A)
     /\ resolve_collision(B) = location(B)

\* C1: when the collision step of an update has run, on_collision was
\* invoked exactly once on A with B and exactly once on B with A, for every
\* colliding pair of non-static entities A before B, wherever they lie.
C1_ExactlyOnce ==
  CollisionStepDone =>
    \A p, q \in DOMAIN entity_cells :
      CollidingPair(p, q) =>
        /\ Count("on_collision", entity_cells[p], entity_cells[q]) = 1
        /\ Count("on_collision", entity_cells[q], entity_cells[p]) = 1

Held == {h \in Handles : body[h].id # 0}
Indexed(map) == UNION {Range(map[c]) : c \in Cells}

C2_State ==
  /\ next_id >= 1
  /\ Range(entity_cells) \cup Indexed(static_hashmap) \cup Indexed(dynamic_hashmap) \subseteq Held
  /\ \A h, g \in Held : h # g => body[h].id # body[g].id
  /\ {body[h].id : h \in Held} = 1..(next_id - 1)

C2_Step ==
  /\ next_id' >= next_id
  /\ pc # "idle" => next_id' = next_id
  /\ \A h \in Handles :
       (body[h].id = 0 /\ body'[h].id # 0) =>
         /\ body'[h].id = Cardinality(Held) + 1
         /\ next_id' = body'[h].id + 1
  /\ \A h \in Held : body'[h].id = body[h].id

\* C2: the k-th insert assigns id k, next_id starts at 1 and never
\* decreases (update and reclamation leave it unchanged), ids are never
\* reassigned and no two entities of the world carry the same id.
C2_Ids == [](C2_State) /\ [][C2_Step]_vars

\* an insert after a cycle that removed an entity: the id is a new one
C2_Witness ==
  /\ pc = "idle" /\ removed # {} /\ fresh # {}
  /\ next_id = Cardinality(Held) + 1 /\ next_id > 2

\* C3 as stated: from its insert until the next update, a non-static entity
\* is returned neither by get_locally at its location nor by get_on_index at
\* a cell it overlaps.
C3_NotDiscoverable ==
  \A h \in fresh : \A m \in Masks :
    ~IsStatic(h) =>
      /\ h \notin Range(get_locally(m, location(h)))
      /\ \A c \in Range(CellSeq(location(h))) : h \notin Range(get_on_index(m, c))

\* C3 amended: from the return of its insert until the next update begins, a
\* non-static entity whose group meets the mask is returned by get_locally at
\* its location and by get_on_index at every cell it overlaps.
C3_DiscoverableAtInsert ==
  \A h \in fresh : \A m \in Masks :
    (~IsStatic(h) /\ BitAnd(Kind(h).group, m) # 0) =>
      /\ h \in Range(get_locally(m, location(h)))
      /\ \A c \in Range(CellSeq(location(h))) : h \in Range(get_on_index(m, c))

C3_Witness ==
  \E h \in fresh :
    /\ ~IsStatic(h) /\ Len(CellSeq(location(h))) > 1 /\ pc = "idle"
    /\ h \in Range(get_on_index(Kind(h).group, CellSeq(location(h))[2]))

\* C4: a static entity of the master list that is not dead is returned, for
\* every mask meeting its group, by get_on_group, by get_locally at its
\* location and by get_on_index at every cell its location overlaps.
C4_StaticDiscoverable ==
  \A h \in Range(entity_cells) : \A m \in Masks :
    (IsStatic(h) /\ ~body[h].dead /\ BitAnd(Kind(h).group, m) # 0) =>
      /\ h \in Range(get_on_group(m))
      /\ h \in Range(get_locally(m, location(h)))
      /\ \A c \in Range(CellSeq(location(h))) : h \in Range(get_on_index(m, c))

C4_Witness ==
  \E h \in Range(entity_cells) :
    /\ IsStatic(h) /\ ~body[h].dead /\ h \notin fresh
    /\ Len(entity_cells) > 1 /\ pc = "hooks"
    /\ \A c \in Range(CellSeq(location(h))) : h \in Range(get_on_index(1, c))

ScanDone == pc = "reclaim" /\ i >= Len(entity_cells)

\* C5: when the swap-remove scan ends, the master list holds every entity
\* of the list it started from that is not dead exactly once, holds no dead
\* entity, and the removed entities are exactly the dead ones.
C5_Reclaimed ==
  ScanDone =>
    /\ \A h \in Handles :
         Occurrences(entity_cells, h) =
           (IF h \in Range(scan0) /\ ~body[h].dead THEN 1 ELSE 0)
    /\ removed = {h \in Range(scan0) : body[h].dead}

\* a dead entity swapped into the slot of a dead entity, both removed
C5_Witness ==
  /\ ScanDone
  /\ Len(scan0) = 3
  /\ ~body[scan0[1]].dead /\ body[scan0[2]].dead /\ body[scan0[3]].dead
  /\ entity_cells = <<scan0[1]>>

\* C6: an entity removed by the reclamation step of the running cycle is
\* the receiver of no resolve_collision and of no on_collision of that cycle.
C6_NoCallbackAfterRemoval ==
  \A k \in DOMAIN log :
    log[k].op \in {"resolve_collision", "on_collision"} => log[k].a \notin removed

\* C7: when the collision step of an update has run, every colliding pair
\* of non-static entities A before B was tested exactly once, during the
\* step of B and never during the step of A.
C7_TestedOnce ==
  CollisionStepDone =>
    \A p, q \in DOMAIN entity_cells :
      CollidingPair(p, q) =>
        /\ Count("collide", entity_cells[q], entity_cells[p]) = 1
        /\ Count("collide", entity_cells[p], entity_cells[q]) = 0

Calls == ray.out.calls

\* C8: one ray cast invokes the callback at most once per entity id.
C8_OncePerId ==
  ray.cast =>
    \A p, q \in DOMAIN Calls : p # q => Calls[p].id # Calls[q].id

\* an entity reported by a cast that processed two cells holding it
C8_Witness ==
  /\ ray.cast
  /\ ~ray.out.returned
  /\ \E k \in DOMAIN Calls :
       Cardinality({c \in Range(grid_raycast(ray.r)) :
                      Calls[k].entity \in Range(get_on_index(ray.mask, c))}) > 1

\* C9: no callback is invoked after one that returned true, raycast returns
\* at that invocation, and a cast whose callback never returned true has
\* processed every traversed cell.
C9_StopsAtTrue ==
  ray.cast =>
    /\ \A k \in DOMAIN Calls : Calls[k].ret => k = Len(Calls)
    /\ ray.out.returned <=> (Calls # <<>> /\ Calls[Len(Calls)].ret)
    /\ ~ray.out.returned => ray.out.cells = Len(grid_raycast(ray.r))

\* a cast stopped at its first hit although further hits lie along the ray
C9_Witness ==
  /\ ray.cast
  /\ ray.out.returned
  /\ Len(Calls) = 1
  /\ ray.out.cells < Len(grid_raycast(ray.r))
  /\ Len(raycast_cells(ray.r, ray.mask, 0, 1, {}, <<>>).calls) > 1

InBox(pt, l) == l.left <= pt[1] /\ pt[1] <= l.right /\ l.down <= pt[2] /\ pt[2] <= l.up
\* the steps of the ray at which it is inside the shape of h
RaySteps(r, h) == {t \in 0..r.n : InBox(RayPoint(r, t), location(h))}
\* the distance, in steps, from the origin to the shape of h
Nearest(r, h) == CHOOSE t \in RaySteps(r, h) : \A u \in RaySteps(r, h) : t <= u

\* C10: of two disjoint shapes crossed by the ray, the one nearer to the
\* origin is passed to the callback first.
C10_NearToFar ==
  ray.cast =>
    \A p, q \in DOMAIN Calls :
      LET e == Calls[p].entity
          f == Calls[q].entity
      IN (/\ p < q
          /\ ~Overlap(location(e), location(f))
          /\ RaySteps(ray.r, e) # {} /\ RaySteps(ray.r, f) # {})
         => Nearest(ray.r, e) <= Nearest(ray.r, f)

C11_State ==
  \A c \in Cells : \A h \in Handles :
    Occurrences(static_hashmap[c], h) =
      (IF IsStatic(h) /\ body[h].id # 0 /\ c \in Range(CellSeq(Kind(h).home)) THEN 1 ELSE 0)

C11_Step == (pc # "idle" \/ pc' # "idle") => static_hashmap' = static_hashmap

\* C11: no step of update changes static_hashmap, and the static index
\* holds every inserted static entity exactly once under each cell of its
\* location and nothing else, whether the entity is alive, dead or removed.
C11_StaticIndexFrame == [](C11_State) /\ [][C11_Step]_vars

\* the collision step of a cycle that removed a dead static entity
C11_Witness ==
  /\ pc = "collide"
  /\ \E h \in removed : IsStatic(h) /\ h \in Indexed(static_hashmap)

Pos(h) == CHOOSE k \in DOMAIN entity_cells : entity_cells[k] = h

\* C12: apply_on_group(mask, callback) invokes the callback exactly once on
\* every entity of the master list whose group meets the mask, on no other
\* entity, in the order of the master list.
C12_AppliedOnGroup ==
  applied.cast =>
    /\ \A h \in Handles :
         Occurrences(applied.calls, h) =
           (IF h \in Range(entity_cells) /\ BitAnd(Kind(h).group, applied.mask) # 0
            THEN 1 ELSE 0)
    /\ \A p, q \in DOMAIN applied.calls :
         p < q => Pos(applied.calls[p]) < Pos(applied.calls[q])

\* two of three entities called, one left out by the mask
C12_Witness ==
  /\ applied.cast
  /\ Len(entity_cells) = 3
  /\ Len(applied.calls) = 2

\* C13: update never delivers the entity it is processing to that entity's
\* own collision query, and never reaches the failed second borrow.
C13_NoSelfVisit ==
  /\ pc # "panicked"
  /\ pc = "visit" => entity_cells[i] \notin Range(apply_locally_cells(loc))

Processed == {entity_cells[k] : k \in 1..(i - 1)}

\* C14: dynamic_hashmap never holds a static entity; insert leaves the
\* entity in exactly one index, the one of its physic type; and during the
\* rebuild dynamic_hashmap holds only entities already processed in the cycle.
C14_DynamicOnly ==
  /\ \A h \in Indexed(dynamic_hashmap) : ~IsStatic(h)
  /\ \A h \in fresh :
       /\ IsStatic(h) <=> h \in Indexed(static_hashmap)
       /\ ~IsStatic(h) <=> h \in Indexed(dynamic_hashmap)
  /\ pc \in {"collide", "visit"} => Indexed(dynamic_hashmap) \subseteq Processed

\* the step of a static entity, after a dynamic one was put back in the index
C14_Witness ==
  /\ pc = "visit"
  /\ i >= 2
  /\ IsStatic(entity_cells[i])
  /\ Indexed(dynamic_hashmap) # {}

\* C15: between the calls of insert and update, every entity referenced
\* by static_hashmap or dynamic_hashmap is an element of entity_cells.
C15_IndexedInMaster ==
  pc = "idle" =>
    Indexed(static_hashmap) \cup Indexed(dynamic_hashmap) \subseteq Range(entity_cells)

\* the log entry k opens a block: the predicate followed by the four calls
FullBlock(k) ==
  /\ k + 4 <= Len(log)
  /\ log[k + 1] = Ev("resolve_collision", log[k].a, log[k].b)
  /\ log[k + 2] = Ev("resolve_collision", log[k].b, log[k].a)
  /\ log[k + 3] = Ev("on_collision", log[k].a, log[k].b)
  /\ log[k + 4] = Ev("on_collision", log[k].b, log[k].a)

\* the predicate at entry k is followed by no call
LoneCollide(k) == k = Len(log) \/ log[k + 1].op = "collide"

C16_Blocks ==
  \A k \in DOMAIN log :
    IF log[k].op = "collide"
    THEN FullBlock(k) \/ LoneCollide(k)
    ELSE \E m \in 1..4 : k - m >= 1 /\ log[k - m].op = "collide" /\ FullBlock(k - m)

C16_Step ==
  (pc = "visit" /\ log' # log) =>
    \E other \in Handles :
      LET entity == entity_cells[i]
          hit == Overlap(body[entity].location, body[other].location)
      IN /\ Len(log') = Len(log) + (IF hit THEN 5 ELSE 1)
         /\ SubSeq(log', 1, Len(log)) = log
         /\ log'[Len(log) + 1] = Ev("collide", entity, other)
         /\ hit =>
              /\ log'[Len(log) + 2] = Ev("resolve_collision", entity, other)
              /\ log'[Len(log) + 3] = Ev("resolve_collision", other, entity)
              /\ log'[Len(log) + 4] = Ev("on_collision", entity, other)
              /\ log'[Len(log) + 5] = Ev("on_collision", other, entity)

\* C16: for a match the collision step calls the predicate
\* collide(entity, other); when it is true the next calls are
\* entity.resolve_collision(other), other.resolve_collision(entity),
\* entity.on_collision(other), other.on_collision(entity), in that order, and
\* when it is false none of the four is made for the match.
C16_FourCallsInOrder == [](C16_Blocks) /\ [][C16_Step]_vars

\* a cycle that has seen a true predicate and a false one
C16_Witness ==
  /\ \E k \in DOMAIN log : log[k].op = "collide" /\ FullBlock(k)
  /\ \E k \in DOMAIN log : log[k].op = "collide" /\ LoneCollide(k)

\* C17: raycast hands to the callback only entities whose shape meets
\* the ray segment from the origin to the endpoint, for every direction,
\* the exactly vertical one included.
C17_OnSegmentOnly ==
  ray.cast => \A k \in DOMAIN Calls : RaySteps(ray.r, Calls[k].entity) # {}

\* the two points Body::raycast gives for the entity and the line of the ray
Points(r, h) == body_raycast(h, line_equation(r))

\* positions in the traversal of the cells that hold h and whose segment the
\* interval of h overlaps
HitCells(r, h) ==
  {k \in DOMAIN grid_raycast(r) :
     /\ h \in Range(hm_get_on_index(static_hashmap, grid_raycast(r)[k])
                      \o hm_get_on_index(dynamic_hashmap, grid_raycast(r)[k]))
     /\ Points(r, h) # <<>>
     /\ Max2(grid_raycast(r)[k][1] * unit, line_start(r)) <= Points(r, h)[3]
     /\ Points(r, h)[1] <= Min2((grid_raycast(r)[k][1] + 1) * unit, line_end(r))}

\* the cell in which the entity is recorded: the first such cell
FirstHitCell(r, h) ==
  grid_raycast(r)[CHOOSE k \in HitCells(r, h) : \A m \in HitCells(r, h) : k <= m]

ToMin(r, h) == Dist2(r, Points(r, h)[1], Points(r, h)[2])
ToMax(r, h) == Dist2(r, Points(r, h)[3], Points(r, h)[4])
BeyondEnd(r, h) ==
  Points(r, h)[3] > Min2((FirstHitCell(r, h)[1] + 1) * unit, line_end(r))
BeforeStart(r, h) ==
  Points(r, h)[1] < Max2(FirstHitCell(r, h)[1] * unit, line_start(r))

\* C18 as stated: for a leftward ray near is the distance to (x_min,y_min)
\* and far the distance to (x_max,y_max), near negated when x_max lies
\* beyond the segment end; for a rightward ray the roles are swapped.
C18_AsStated ==
  ray.cast =>
    \A k \in DOMAIN Calls :
      LET h == Calls[k].entity
      IN IF ray.r.dx < 0
         THEN /\ Calls[k].min = (IF BeyondEnd(ray.r, h) THEN -ToMin(ray.r, h) ELSE ToMin(ray.r, h))
              /\ Calls[k].max = ToMax(ray.r, h)
         ELSE /\ Calls[k].min = (IF BeforeStart(ray.r, h) THEN -ToMax(ray.r, h) ELSE ToMax(ray.r, h))
              /\ Calls[k].max = ToMin(ray.r, h)

\* C18 amended: for a leftward ray near is the distance to (x_max,y_max)
\* and far the distance to (x_min,y_min), near negated when x_max lies
\* beyond the segment end of the cell; for a rightward ray near is the
\* distance to (x_min,y_min) and far the distance to (x_max,y_max), near
\* negated when x_min lies before the segment start of the cell.
C18_NearFar ==
  ray.cast =>
    \A k \in DOMAIN Calls :
      LET h == Calls[k].entity
      IN IF ray.r.dx < 0
         THEN /\ Calls[k].min = (IF BeyondEnd(ray.r, h) THEN -ToMax(ray.r, h) ELSE ToMax(ray.r, h))
              /\ Calls[k].max = ToMin(ray.r, h)
         ELSE /\ Calls[k].min = (IF BeforeStart(ray.r, h) THEN -ToMin(ray.r, h) ELSE ToMin(ray.r, h))
              /\ Calls[k].max = ToMax(ray.r, h)

\* a leftward ray that starts inside a shape: negated near, far beyond it
C18_Witness ==
  /\ ray.cast
  /\ ray.r.dx < 0
  /\ \E k \in DOMAIN Calls : Calls[k].min < 0 /\ Calls[k].max > -Calls[k].min

\* the cells whose bucket of dynamic_hashmap holds h
RegisteredCells(h) == {c \in Cells : h \in Range(dynamic_hashmap[c])}

\* C19: when update returns, every entity of the master list is
\* registered in dynamic_hashmap under exactly the cells its location covers
\* at that moment, also when resolve_collision moved it after its own insertion.
C19_NoStaleCells ==
  CollisionStepDone =>
    \A h \in Range(entity_cells) : RegisteredCells(h) = Range(CellSeq(location(h)))

\* the entities update leaves in the master list or in dynamic_hashmap
Kept == Range(entity_cells) \cup Indexed(dynamic_hashmap)

\* C20 as stated: when update returns, no entity of the master list or
\* of dynamic_hashmap has its dead flag set, whoever set it during the cycle.
C20_NoDeadAtReturn ==
  CollisionStepDone => \A h \in Kept : ~body[h].dead

\* C20 amended: when update returns, an entity of the master list or of
\* dynamic_hashmap has its dead flag set only if an on_collision callback of
\* the collision step of this cycle was invoked on it; entities marked dead
\* earlier, by update hooks included, have left the master list.
C20_DeadOnlyByCollision ==
  CollisionStepDone =>
    \A h \in Kept :
      body[h].dead => \E k \in DOMAIN log : log[k].op = "on_collision" /\ log[k].a = h

\* a cycle that removed an entity and ends with an entity marked dead
C20_Witness ==
  /\ CollisionStepDone
  /\ removed # {}
  /\ \E h \in Range(entity_cells) : body[h].dead

TypeOK ==
  /\ next_id \in 1..(MaxEntities + 1)
  /\ Range(entity_cells) \subseteq Handles
  /\ pc \in {"idle", "hooks", "reclaim", "collide", "visit", "panicked"}
====
